---------------------------- MODULE Spec2Model ----------------------------
(***************************************************************************)
(* Model of the log-reconciliation scripts under src/logsAnalysis.         *)
(*                                                                         *)
(* A role label is a sequence of words (the words of the free text, in     *)
(* order); a marker is the word sequence of "Athens", "North America" or   *)
(* "Mars Colony", and Python's  marker in label  is containment of the     *)
(* marker as a contiguous run of words.  A day text is a sequence of       *)
(* characters.  A log is a stream of rows; every loop over a log is one    *)
(* action per row.                                                         *)
(***************************************************************************)
EXTENDS Integers, Sequences, FiniteSets, TLC

VARIABLES
    pc,              \* position of the running script
    label,           \* role_str handed to the classifier
    role,            \* what get_role_category returned
    role_type,       \* what the inline classifier of verify_all computed
    summary_seen,    \* userId values of the summary rows read so far (history)
    row,             \* the in-game row the scan loop is at (NoRow before the first)
    targets,         \* analyze_day8_completion: userId -> roles of the summary
    users_to_check,  \* analyze_day8_completion: userId -> roles expected on day 8
    results,         \* analyze_day8_completion: userId -> role -> True
    users_roles,     \* analyze_logs: userId -> roles of the summary
    unique_ids,      \* analyze_logs: sorted(list(users_roles.keys()))
    idx,             \* analyze_logs: users the classification loop has done
    all_three, only_athens, athens_na_only, na_or_mars_no_athens,
    athens_mars_only, no_valid_roles,    \* analyze_logs: the bucket counters
    unclassified,    \* analyze_users_debug: users printed as UNCLASSIFIED
    debug_counts,    \* analyze_users: users per role
    disk,            \* the in-game log file on storage: header line and rows
    original,        \* what that file held when the run started (history)
    valid_users,     \* filter_ingame_logs: get_valid_users() so far
    header,          \* filter_ingame_logs: reader.fieldnames
    kept_rows,       \* filter_ingame_logs
    removed_count, total_count,
    min_ts, max_ts,  \* filter_ingame_logs: None (ok = FALSE), or the instant
    pos,             \* filter_ingame_logs: rows of the file the reader has yielded
    wpos,            \* filter_ingame_logs: rows writerows has written
    run,             \* filter_ingame_logs: 1 in the first run, 2 in a re-run
    printed,         \* the lines the running script has printed, in order
    users_summary_roles,     \* discrepancy passes: userId -> roles of the summary
    comp_athens_na_only,     \* comprehensive pass: athens_na_only
    comp_athens_mars_only,   \* comprehensive pass: athens_mars_only
    no_athens,               \* comprehensive pass
    found_mars_for_athens_na, found_na_for_athens_mars,
    found_roles_for_no_athens,   \* comprehensive pass: userId -> roles found
    distinct_ingame_roles,   \* verify_all: labels of the in-game log
    athens_only,             \* verify_all: sorted list of Athens-only users
    users_with_extra_logs,   \* verify_all: userId -> extra roles found
    max_days,        \* analyze_max_day: userId -> largest day so far
    matched_days     \* analyze_max_day: userId -> integer days of matching rows (history)

classifyVars == <<label, role, role_type>>
day8Vars == <<targets, users_to_check, results>>
counterVars == <<all_three, only_athens, athens_na_only, na_or_mars_no_athens,
                 athens_mars_only, no_valid_roles>>
logsVars == <<users_roles, unique_ids, idx, counterVars, unclassified, debug_counts>>
filterVars == <<disk, original, valid_users, header, kept_rows, removed_count,
                total_count, min_ts, max_ts, pos, wpos, run>>
compVars == <<comp_athens_na_only, comp_athens_mars_only, no_athens,
              found_mars_for_athens_na, found_na_for_athens_mars,
              found_roles_for_no_athens>>
verifyVars == <<distinct_ingame_roles, athens_only, users_with_extra_logs>>
maxVars == <<max_days, matched_days>>
passVars == <<printed, users_summary_roles, compVars, verifyVars, maxVars>>
notClassify == <<summary_seen, row, day8Vars, logsVars, filterVars, passVars>>
notDay8 == <<classifyVars, logsVars, filterVars, passVars>>
notLogs == <<row, classifyVars, day8Vars, filterVars, passVars>>
notFilter == <<summary_seen, row, classifyVars, day8Vars, logsVars, passVars>>
notComp == <<summary_seen, classifyVars, day8Vars, logsVars, filterVars,
             verifyVars, maxVars>>
notVerify == <<summary_seen, row, classifyVars, day8Vars, logsVars, filterVars,
               compVars, maxVars>>
notMax == <<summary_seen, classifyVars, day8Vars, logsVars, filterVars,
            users_summary_roles, compVars, verifyVars>>
vars == <<pc, summary_seen, row, classifyVars, day8Vars, logsVars, filterVars,
          passVars>>

(***************************************************************************)
(* Bounds and vocabulary                                                   *)
(***************************************************************************)
MaxLabelLen == 4

Words == {"Athens", "North", "America", "Mars", "Colony", "Tel"}

RECURSIVE SeqsUpTo(_, _)
SeqsUpTo(S, n) ==
    IF n = 0 THEN {<<>>}
    ELSE LET shorter == SeqsUpTo(S, n - 1)
         IN  shorter \cup {Append(s, x) : s \in {t \in shorter : Len(t) = n - 1}, x \in S}

Labels == SeqsUpTo(Words, MaxLabelLen)

MarkerAthens == <<"Athens">>
MarkerNA == <<"North", "America">>
MarkerMars == <<"Mars", "Colony">>

\* Python's  marker in role_str
Contains(role_str, marker) ==
    \E i \in 1..(Len(role_str) - Len(marker) + 1) :
        SubSeq(role_str, i, i + Len(marker) - 1) = marker

(***************************************************************************)
(* Role Classifier                                                         *)
(***************************************************************************)
get_role_category_swapped(role_str) ==
    IF Contains(role_str, MarkerNA) THEN "North America"
    ELSE IF Contains(role_str, MarkerAthens) THEN "Athens"
    ELSE IF Contains(role_str, MarkerMars) THEN "Mars Colony"
    ELSE "Other"

get_role_category(role_str) ==
    IF Contains(role_str, MarkerAthens) THEN "Athens"
    ELSE IF Contains(role_str, MarkerNA) THEN "North America"
    ELSE IF Contains(role_str, MarkerMars) THEN "Mars Colony"
    ELSE "Other"

\* verify_all's inline copy: role_type starts "Other" and an if/elif chain
\* overwrites it.
verify_all_role_type(r) ==
    LET start == "Other"
    IN  IF Contains(r, MarkerAthens) THEN "Athens"
        ELSE IF Contains(r, MarkerNA) THEN "North America"
        ELSE IF Contains(r, MarkerMars) THEN "Mars Colony"
        ELSE start

NoRow == [userId |-> "?", role |-> <<>>, day |-> <<>>]
EmptyMap == [u \in {} |-> {}]

\* The state of the scripts that are not running.
IdleClassify == label = <<>> /\ role = "unset" /\ role_type = "unset"
IdleDay8 == targets = EmptyMap /\ users_to_check = EmptyMap /\ results = EmptyMap
ZeroCounters ==
    /\ all_three = 0 /\ only_athens = 0 /\ athens_na_only = 0
    /\ na_or_mars_no_athens = 0 /\ athens_mars_only = 0 /\ no_valid_roles = 0
IdleLogs ==
    /\ users_roles = EmptyMap /\ unique_ids = <<>> /\ idx = 0
    /\ ZeroCounters /\ unclassified = {} /\ debug_counts = EmptyMap

\* A file with nothing in it, and Python's None where an instant may stand.
EmptyFile == [exists |-> TRUE, header |-> <<>>, rows |-> <<>>]
NoFile == [exists |-> FALSE, header |-> <<>>, rows |-> <<>>]
None == [ok |-> FALSE, val |-> 0]

IdleFilter ==
    /\ disk = NoFile /\ original = NoFile /\ valid_users = {} /\ header = <<>>
    /\ kept_rows = <<>> /\ removed_count = 0 /\ total_count = 0
    /\ min_ts = None /\ max_ts = None /\ pos = 0 /\ wpos = 0 /\ run = 1

IdleComp ==
    /\ comp_athens_na_only = {} /\ comp_athens_mars_only = {} /\ no_athens = {}
    /\ found_mars_for_athens_na = EmptyMap /\ found_na_for_athens_mars = EmptyMap
    /\ found_roles_for_no_athens = EmptyMap
IdleVerify ==
    /\ distinct_ingame_roles = {} /\ athens_only = <<>>
    /\ users_with_extra_logs = EmptyMap
IdleMax == max_days = EmptyMap /\ matched_days = EmptyMap
IdlePasses ==
    /\ printed = <<>> /\ users_summary_roles = EmptyMap
    /\ IdleComp /\ IdleVerify /\ IdleMax

InitClassify ==
    /\ pc = "call"
    /\ label \in Labels
    /\ role = "unset"
    /\ role_type = "unset"
    /\ summary_seen = {}
    /\ row = NoRow
    /\ IdleDay8
    /\ IdleLogs
    /\ IdleFilter
    /\ IdlePasses

CallClassifier ==
    /\ pc = "call"
    /\ role' = get_role_category(label)
    /\ role_type' = verify_all_role_type(label)
    /\ pc' = "returned"
    /\ UNCHANGED <<label, notClassify>>

NextClassify == CallClassifier

SpecClassify == InitClassify /\ [][NextClassify]_vars


(***************************************************************************)
(* Log rows                                                                *)
(***************************************************************************)
excluded_users == {"yoav@tau.ac.il", "yoni_levy@tau.ac.il"}

\* userId values a row can carry: empty, the two operator accounts, and
\* two participants.
UserIds == {"", "u1", "u2"} \cup excluded_users

\* Role labels the rows of the two logs carry: each marker alone, unrelated
\* text, a broken marker, and labels holding two markers.
RowLabels ==
    { <<"Athens">>, <<"North", "America">>, <<"Mars", "Colony">>, <<"Tel">>,
      <<"North", "Colony">>,
      <<"Athens", "North", "America">>, <<"Athens", "Mars", "Colony">>,
      <<"North", "America", "Mars", "Colony">> }

\* Texts of the day column.
RowDays == { <<"8">>, <<"0", "8">>, <<" ", "8">>, <<"3">>, <<>>, <<"x">> }

Roles == {"Athens", "North America", "Mars Colony"}

Marker(r) ==
    CASE r = "Athens" -> MarkerAthens
      [] r = "North America" -> MarkerNA
      [] r = "Mars Colony" -> MarkerMars

\* d[k] = v on a dict of sets: users_roles[uid].add(role) after the
\* "if uid not in d: d[uid] = set()" that precedes it.
AddTo(d, k, v) ==
    IF k \in DOMAIN d THEN [d EXCEPT ![k] = @ \cup {v}] ELSE d @@ (k :> {v})

(***************************************************************************)
(* Python's int(text): surrounding whitespace is stripped, one sign is     *)
(* allowed, the rest must be one or more decimal digits.  The result is    *)
(* [ok |-> TRUE, val |-> n], or ok = FALSE where Python raises ValueError. *)
(***************************************************************************)
Digits == {"0", "1", "2", "3", "4", "5", "6", "7", "8", "9"}

DigitVal(c) ==
    CASE c = "0" -> 0 [] c = "1" -> 1 [] c = "2" -> 2 [] c = "3" -> 3
      [] c = "4" -> 4 [] c = "5" -> 5 [] c = "6" -> 6 [] c = "7" -> 7
      [] c = "8" -> 8 [] c = "9" -> 9

RECURSIVE Strip(_)
Strip(s) ==
    IF s = <<>> THEN s
    ELSE IF Head(s) = " " THEN Strip(Tail(s))
    ELSE IF s[Len(s)] = " " THEN Strip(SubSeq(s, 1, Len(s) - 1))
    ELSE s

RECURSIVE DigitsValue(_, _)
DigitsValue(s, acc) ==
    IF s = <<>> THEN acc ELSE DigitsValue(Tail(s), 10 * acc + DigitVal(Head(s)))

int(text) ==
    LET t == Strip(text)
        signed == t # <<>> /\ Head(t) \in {"+", "-"}
        body == IF signed THEN Tail(t) ELSE t
    IN  IF body = <<>> \/ \E i \in 1..Len(body) : body[i] \notin Digits
        THEN [ok |-> FALSE, val |-> 0]
        ELSE IF signed /\ Head(t) = "-"
        THEN [ok |-> TRUE, val |-> 0 - DigitsValue(body, 0)]
        ELSE [ok |-> TRUE, val |-> DigitsValue(body, 0)]

(***************************************************************************)
(* analyze_day8_completion                                                 *)
(***************************************************************************)
\* The if/elif chain that fills  missing  for one user of targets.
day8_missing_athens_only(roles) ==
    IF "Athens" \in roles /\ "North America" \notin roles /\ "Mars Colony" \notin roles
    THEN {"North America", "Mars Colony"}
    ELSE IF "Athens" \in roles /\ "North America" \in roles /\ "Mars Colony" \notin roles
    THEN {"Mars Colony"}
    ELSE IF "Athens" \in roles /\ "North America" \notin roles /\ "Mars Colony" \in roles
    THEN {"North America"}
    ELSE IF "Athens" \notin roles
    THEN {"Athens"}
    ELSE {}

day8_missing(roles) ==
    IF "Athens" \in roles /\ "North America" \notin roles /\ "Mars Colony" \notin roles
    THEN {"North America", "Mars Colony"}
    ELSE IF "Athens" \in roles /\ "North America" \in roles /\ "Mars Colony" \notin roles
    THEN {"Mars Colony"}
    ELSE IF "Athens" \in roles /\ "North America" \notin roles /\ "Mars Colony" \in roles
    THEN {"North America"}
    ELSE IF "Athens" \notin roles
    THEN {"Athens"} \cup (IF "North America" \notin roles THEN {"North America"} ELSE {})
                    \cup (IF "Mars Colony" \notin roles THEN {"Mars Colony"} ELSE {})
    ELSE {}

day8_matched_target_any(role_val, target_roles) ==
    IF Contains(role_val, MarkerAthens) THEN "Athens"
    ELSE IF Contains(role_val, MarkerNA) THEN "North America"
    ELSE IF Contains(role_val, MarkerMars) THEN "Mars Colony"
    ELSE "None"

\* The if/elif chain that picks matched_target for one in-game row.
day8_matched_target(role_val, target_roles) ==
    IF Contains(role_val, MarkerAthens) /\ "Athens" \in target_roles THEN "Athens"
    ELSE IF Contains(role_val, MarkerNA) /\ "North America" \in target_roles THEN "North America"
    ELSE IF Contains(role_val, MarkerMars) /\ "Mars Colony" \in target_roles THEN "Mars Colony"
    ELSE "None"

\* results[uid][matched_target] = True after "if uid not in results: results[uid] = {}"
SetTrue(res, uid, matched_target) ==
    IF uid \in DOMAIN res
    THEN [res EXCEPT ![uid] = [r \in DOMAIN @ \cup {matched_target} |-> TRUE]]
    ELSE res @@ (uid :> [r \in {matched_target} |-> TRUE])

day8_record_overwrite(res, uid, matched_target, day_val) ==
    IF day_val = <<"8">> THEN SetTrue(res, uid, matched_target)
    ELSE IF uid \in DOMAIN res /\ matched_target \in DOMAIN res[uid]
    THEN [res EXCEPT ![uid] = [r \in DOMAIN @ \ {matched_target} |-> TRUE]]
    ELSE res

\* "if day_val == '8': ... results[uid][matched_target] = True"
day8_record(res, uid, matched_target, day_val) ==
    IF day_val = <<"8">> THEN SetTrue(res, uid, matched_target) ELSE res

is_verified(uid, r) ==
    uid \in DOMAIN results /\ r \in DOMAIN results[uid] /\ results[uid][r]

InitDay8 ==
    /\ pc = "open_summary"
    /\ summary_seen = {}
    /\ row = NoRow
    /\ targets = EmptyMap
    /\ users_to_check = EmptyMap
    /\ results = EmptyMap
    /\ IdleClassify
    /\ IdleLogs
    /\ IdleFilter
    /\ IdlePasses

\* open(summary_file) succeeds, or raises FileNotFoundError: sys.exit(1).
day8_OpenSummary ==
    /\ pc = "open_summary"
    /\ pc' \in {"summary", "exit"}
    /\ UNCHANGED <<summary_seen, row, day8Vars, notDay8>>

\* One turn of "for row in reader" over the summary log.
day8_SummaryRow ==
    /\ pc = "summary"
    /\ \E uid \in UserIds, role_raw \in RowLabels :
         /\ summary_seen' = summary_seen \cup {uid}
         /\ targets' =
              IF uid = "" \/ uid \in excluded_users THEN targets
              ELSE IF get_role_category(role_raw) # "Other"
              THEN AddTo(targets, uid, get_role_category(role_raw))
              ELSE targets
    /\ UNCHANGED <<pc, row, users_to_check, results, notDay8>>

\* The summary log is exhausted: the loop over targets.items() fills
\* users_to_check.
day8_ComputeMissing ==
    /\ pc = "summary"
    /\ users_to_check' =
         [uid \in {u \in DOMAIN targets : day8_missing(targets[u]) # {}}
            |-> day8_missing(targets[uid])]
    /\ pc' = "open_ingame"
    /\ UNCHANGED <<summary_seen, row, targets, results, notDay8>>

day8_OpenIngame ==
    /\ pc = "open_ingame"
    /\ pc' \in {"scan", "exit"}
    /\ UNCHANGED <<summary_seen, row, day8Vars, notDay8>>

\* "for row in reader" over the in-game log yields the next row.
day8_NextRow ==
    /\ pc = "scan"
    /\ \E uid \in UserIds, role_val \in RowLabels, day_val \in RowDays :
         row' = [userId |-> uid, role |-> role_val, day |-> day_val]
    /\ pc' = "body"
    /\ UNCHANGED <<summary_seen, day8Vars, notDay8>>

\* The loop body on that row; the row is consumed.
day8_ScanRow ==
    /\ pc = "body"
    /\ LET uid == row.userId
           role_val == row.role
           day_val == row.day
       IN  results' =
              IF uid \notin DOMAIN users_to_check THEN results
              ELSE LET matched_target == day8_matched_target(role_val, users_to_check[uid])
                   IN  IF matched_target # "None"
                       THEN day8_record(results, uid, matched_target, day_val)
                       ELSE results
    /\ row' = NoRow
    /\ pc' = "scan"
    /\ UNCHANGED <<summary_seen, targets, users_to_check, notDay8>>

\* The in-game log is exhausted: the report is printed from users_to_check
\* and results.
day8_PrintReport ==
    /\ pc = "scan"
    /\ pc' = "done"
    /\ UNCHANGED <<summary_seen, row, day8Vars, notDay8>>

NextDay8 ==
    \/ day8_OpenSummary
    \/ day8_SummaryRow
    \/ day8_ComputeMissing
    \/ day8_OpenIngame
    \/ day8_NextRow
    \/ day8_ScanRow
    \/ day8_PrintReport

SpecDay8 == InitDay8 /\ [][NextDay8]_vars


(***************************************************************************)
(* analyze_users_debug.analyze_logs and analyze_users.analyze_logs         *)
(***************************************************************************)
\* The userId values in Python's string order, for sorted().
UidOrder == <<"", "u1", "u2", "yoav@tau.ac.il", "yoni_levy@tau.ac.il">>

sorted(keys) == LET In(u) == u \in keys IN SelectSeq(UidOrder, In)

\* "if user_id not in users_roles: users_roles[user_id] = set()", then
\* "if role != 'Other': users_roles[user_id].add(role)".
AddProfile(d, k, role_cat) ==
    LET e == IF k \in DOMAIN d THEN d ELSE d @@ (k :> {})
    IN  IF role_cat # "Other" THEN [e EXCEPT ![k] = @ \cup {role_cat}] ELSE e

debug_buckets_no_athens_mars(roles) ==
    LET has_athens == "Athens" \in roles
        has_na == "North America" \in roles
        has_mars == "Mars Colony" \in roles
    IN  IF Cardinality(roles) = 0 THEN {"no_valid_roles"}
        ELSE IF has_athens /\ has_na /\ has_mars THEN {"all_three"}
        ELSE IF has_athens /\ Cardinality(roles) = 1 THEN {"only_athens"}
        ELSE IF has_athens /\ has_na /\ ~has_mars THEN {"athens_na_only"}
        ELSE IF (has_na \/ has_mars) /\ ~has_athens THEN {"na_or_mars_no_athens"}
        ELSE {}

\* analyze_users_debug: the counters the if/elif chain increments for one
\* user (none: the user is printed as UNCLASSIFIED).
debug_buckets(roles) ==
    LET has_athens == "Athens" \in roles
        has_na == "North America" \in roles
        has_mars == "Mars Colony" \in roles
    IN  IF Cardinality(roles) = 0 THEN {"no_valid_roles"}
        ELSE IF has_athens /\ has_na /\ has_mars THEN {"all_three"}
        ELSE IF has_athens /\ Cardinality(roles) = 1 THEN {"only_athens"}
        ELSE IF has_athens /\ has_na /\ ~has_mars THEN {"athens_na_only"}
        ELSE IF (has_na \/ has_mars) /\ ~has_athens THEN {"na_or_mars_no_athens"}
        ELSE IF has_athens /\ has_mars /\ ~has_na THEN {"athens_mars_only"}
        ELSE {}

\* analyze_users: an if/elif chain, then a separate "if".
users_buckets(roles) ==
    LET has_athens == "Athens" \in roles
        has_na == "North America" \in roles
        has_mars == "Mars Colony" \in roles
    IN  (IF has_athens /\ has_na /\ has_mars THEN {"all_three"}
         ELSE IF has_athens /\ Cardinality(roles) = 1 THEN {"only_athens"}
         ELSE IF has_athens /\ has_na /\ ~has_mars THEN {"athens_na_only"}
         ELSE {})
        \cup (IF (has_na \/ has_mars) /\ ~has_athens THEN {"na_or_mars_no_athens"} ELSE {})

Bump(counter, name, hit) == IF name \in hit THEN counter + 1 ELSE counter

\* counter += 1 for every counter named in hit
Count(hit) ==
    /\ all_three' = Bump(all_three, "all_three", hit)
    /\ only_athens' = Bump(only_athens, "only_athens", hit)
    /\ athens_na_only' = Bump(athens_na_only, "athens_na_only", hit)
    /\ na_or_mars_no_athens' = Bump(na_or_mars_no_athens, "na_or_mars_no_athens", hit)
    /\ athens_mars_only' = Bump(athens_mars_only, "athens_mars_only", hit)
    /\ no_valid_roles' = Bump(no_valid_roles, "no_valid_roles", hit)

InitLogs ==
    /\ summary_seen = {}
    /\ row = NoRow
    /\ IdleClassify
    /\ IdleDay8
    /\ IdleLogs
    /\ IdleFilter
    /\ IdlePasses

InitDebug == pc = "debug_open" /\ InitLogs

\* open(csv_file) succeeds, or raises FileNotFoundError: the error is printed
\* and analyze_logs returns.
debug_Open ==
    /\ pc = "debug_open"
    /\ pc' \in {"debug_summary", "return"}
    /\ UNCHANGED <<summary_seen, logsVars, notLogs>>

debug_SummaryRow ==
    /\ pc = "debug_summary"
    /\ \E user_id \in UserIds, role_raw \in RowLabels :
         /\ summary_seen' = summary_seen \cup {user_id}
         /\ users_roles' =
              IF user_id = "" THEN users_roles
              ELSE IF user_id \in excluded_users THEN users_roles
              ELSE AddProfile(users_roles, user_id, get_role_category(role_raw))
    /\ UNCHANGED <<pc, unique_ids, idx, counterVars, unclassified, debug_counts, notLogs>>

\* The summary log is exhausted: unique_ids is sorted and the counters start at 0.
debug_Sort ==
    /\ pc = "debug_summary"
    /\ unique_ids' = sorted(DOMAIN users_roles)
    /\ pc' = "debug_classify"
    /\ UNCHANGED <<summary_seen, users_roles, idx, counterVars, unclassified,
                   debug_counts, notLogs>>

\* One turn of "for uid in unique_ids" of the classification loop.
debug_ClassifyUser ==
    /\ pc = "debug_classify"
    /\ idx < Len(unique_ids)
    /\ LET uid == unique_ids[idx + 1]
           hit == debug_buckets(users_roles[uid])
       IN  /\ Count(hit)
           /\ unclassified' = IF hit = {} THEN unclassified \cup {uid} ELSE unclassified
    /\ idx' = idx + 1
    /\ UNCHANGED <<pc, summary_seen, users_roles, unique_ids, debug_counts, notLogs>>

debug_PrintStats ==
    /\ pc = "debug_classify"
    /\ idx = Len(unique_ids)
    /\ pc' = "done"
    /\ UNCHANGED <<summary_seen, logsVars, notLogs>>

NextDebug ==
    \/ debug_Open
    \/ debug_SummaryRow
    \/ debug_Sort
    \/ debug_ClassifyUser
    \/ debug_PrintStats

SpecDebug == InitDebug /\ [][NextDebug]_vars

InitUsers == pc = "users_open" /\ InitLogs

users_Open ==
    /\ pc = "users_open"
    /\ pc' \in {"users_summary", "return"}
    /\ UNCHANGED <<summary_seen, logsVars, notLogs>>

\* analyze_users reads every row with a userId: it has no exclusion list.
users_SummaryRow ==
    /\ pc = "users_summary"
    /\ \E user_id \in UserIds, role_raw \in RowLabels :
         /\ summary_seen' = summary_seen \cup {user_id}
         /\ users_roles' =
              IF user_id = "" THEN users_roles
              ELSE AddProfile(users_roles, user_id, get_role_category(role_raw))
    /\ UNCHANGED <<pc, unique_ids, idx, counterVars, unclassified, debug_counts, notLogs>>

users_Sort ==
    /\ pc = "users_summary"
    /\ unique_ids' = sorted(DOMAIN users_roles)
    /\ debug_counts' = [r \in Roles |-> 0]
    /\ pc' = "users_classify"
    /\ UNCHANGED <<summary_seen, users_roles, idx, counterVars, unclassified, notLogs>>

users_ClassifyUser ==
    /\ pc = "users_classify"
    /\ idx < Len(unique_ids)
    /\ LET uid == unique_ids[idx + 1]
           roles == users_roles[uid]
       IN  /\ Count(users_buckets(roles))
           /\ debug_counts' = [r \in Roles |-> debug_counts[r] + (IF r \in roles THEN 1 ELSE 0)]
    /\ idx' = idx + 1
    /\ UNCHANGED <<pc, summary_seen, users_roles, unique_ids, unclassified, notLogs>>

users_PrintStats ==
    /\ pc = "users_classify"
    /\ idx = Len(unique_ids)
    /\ pc' = "done"
    /\ UNCHANGED <<summary_seen, logsVars, notLogs>>

NextUsers ==
    \/ users_Open
    \/ users_SummaryRow
    \/ users_Sort
    \/ users_ClassifyUser
    \/ users_PrintStats

SpecUsers == InitUsers /\ [][NextUsers]_vars

(***************************************************************************)
(* filter_ingame_logs                                                      *)
(***************************************************************************)
MaxFileRows == 3

\* userId values of the rows of the in-game file: empty, an operator
\* account, and a participant (valid or not, as the summary log decides).
FileUserIds == {"", "yoav@tau.ac.il", "u1"}

Timestamps == {"2024-11-20T10:00:00Z", "2024-11-22T08:30:00+00:00", "soon"}

\* datetime.fromisoformat(ts_str.replace('Z', '+00:00')) on these texts: the
\* instant as a day number, or ok = FALSE where it raises ValueError.
fromisoformat(ts_str) ==
    CASE ts_str = "2024-11-20T10:00:00Z" -> [ok |-> TRUE, val |-> 20]
      [] ts_str = "2024-11-22T08:30:00+00:00" -> [ok |-> TRUE, val |-> 22]
      [] OTHER -> [ok |-> FALSE, val |-> 0]

FileRows == [userId : FileUserIds, timestamp : Timestamps]
HeaderLine == <<"userId", "timestamp">>

valid_add(valid, user_id) ==
    IF user_id = "" THEN valid
    ELSE IF user_id \in excluded_users THEN valid
    ELSE valid \cup {user_id}

filter_keep_nonempty(uid, valid) == uid # ""

\* "if uid in valid_users"
filter_keep(uid, valid) == uid \in valid

keep_row_prepend(kept, r) == <<r>> \o kept

\* kept_rows.append(row)
keep_row(kept, r) == Append(kept, r)

write_row_front(file, r) == [file EXCEPT !.rows = <<r>> \o @]

\* writerows: the next row goes to the end of the file
write_row(file, r) == [file EXCEPT !.rows = Append(@, r)]

track_min(cur, ts_str) ==
    LET ts == fromisoformat(ts_str)
    IN  IF ~ts.ok THEN cur
        ELSE IF cur = None \/ ts.val < cur.val THEN ts ELSE cur

track_max(cur, ts_str) ==
    LET ts == fromisoformat(ts_str)
    IN  IF ~ts.ok THEN cur
        ELSE IF cur = None \/ ts.val > cur.val THEN ts ELSE cur

InitFilter ==
    /\ pc = "valid_open"
    /\ disk \in {NoFile} \cup {[exists |-> TRUE, header |-> HeaderLine, rows |-> rows] :
                                rows \in SeqsUpTo(FileRows, MaxFileRows)}
    /\ original = disk
    /\ valid_users = {}
    /\ header = <<>>
    /\ kept_rows = <<>>
    /\ removed_count = 0
    /\ total_count = 0
    /\ min_ts = None
    /\ max_ts = None
    /\ pos = 0
    /\ wpos = 0
    /\ run = 1
    /\ IdlePasses
    /\ summary_seen = {}
    /\ row = NoRow
    /\ IdleClassify
    /\ IdleDay8
    /\ IdleLogs

\* get_valid_users: open(csv_file) succeeds, or sys.exit(1).
filter_ValidOpen ==
    /\ pc = "valid_open"
    /\ pc' \in {"valid_rows", "exit"}
    /\ UNCHANGED <<filterVars, notFilter>>

filter_ValidRow ==
    /\ pc = "valid_rows"
    /\ \E user_id \in UserIds, role_raw \in RowLabels :
         valid_users' = valid_add(valid_users, user_id)
    /\ UNCHANGED <<pc, disk, original, header, kept_rows, removed_count, total_count,
                   min_ts, max_ts, pos, wpos, run, notFilter>>

\* get_valid_users returns; open(input_file) reads the header, or raises
\* FileNotFoundError: the error is printed and filter_ingame_logs returns.
filter_OpenInput ==
    /\ pc = "valid_rows"
    /\ header' = IF disk.exists THEN disk.header ELSE header
    /\ pc' = IF disk.exists THEN "read" ELSE "return"
    /\ UNCHANGED <<disk, original, valid_users, kept_rows, removed_count, total_count,
                   min_ts, max_ts, pos, wpos, run, notFilter>>

\* One turn of "for row in reader".
filter_ReadRow ==
    /\ pc = "read"
    /\ pos < Len(disk.rows)
    /\ LET r == disk.rows[pos + 1]
           uid == r.userId
       IN  /\ total_count' = total_count + 1
           /\ IF filter_keep(uid, valid_users)
              THEN /\ kept_rows' = keep_row(kept_rows, r)
                   /\ min_ts' = track_min(min_ts, r.timestamp)
                   /\ max_ts' = track_max(max_ts, r.timestamp)
                   /\ UNCHANGED removed_count
              ELSE /\ removed_count' = removed_count + 1
                   /\ UNCHANGED <<kept_rows, min_ts, max_ts>>
    /\ pos' = pos + 1
    /\ UNCHANGED <<pc, disk, original, valid_users, header, wpos, run, notFilter>>

\* The reader is exhausted; open(input_file, 'w') truncates the file.
filter_OpenForWrite ==
    /\ pc = "read"
    /\ pos = Len(disk.rows)
    /\ disk' = EmptyFile
    /\ pc' = "write_header"
    /\ UNCHANGED <<original, valid_users, header, kept_rows, removed_count, total_count,
                   min_ts, max_ts, pos, wpos, run, notFilter>>

filter_WriteHeader ==
    /\ pc = "write_header"
    /\ disk' = [disk EXCEPT !.header = header]
    /\ pc' = "write_rows"
    /\ UNCHANGED <<original, valid_users, header, kept_rows, removed_count, total_count,
                   min_ts, max_ts, pos, wpos, run, notFilter>>

\* writer.writerows(kept_rows), one row at a time.
filter_WriteRow ==
    /\ pc = "write_rows"
    /\ wpos < Len(kept_rows)
    /\ disk' = write_row(disk, kept_rows[wpos + 1])
    /\ wpos' = wpos + 1
    /\ UNCHANGED <<pc, original, valid_users, header, kept_rows, removed_count,
                   total_count, min_ts, max_ts, pos, run, notFilter>>

\* The with block ends: the file is closed and the statistics are printed.
filter_PrintStats ==
    /\ pc = "write_rows"
    /\ wpos = Len(kept_rows)
    /\ pc' = "stats"
    /\ UNCHANGED <<filterVars, notFilter>>

\* The process is killed, or a write raises, while the file is open for
\* writing.
filter_Interrupted ==
    /\ pc \in {"write_header", "write_rows"}
    /\ pc' = "killed"
    /\ UNCHANGED <<filterVars, notFilter>>

\* filter_ingame_logs is run again on the file the first run wrote, with the
\* summary log (hence get_valid_users()) unchanged: its locals start afresh.
filter_RunAgain ==
    /\ pc = "stats"
    /\ run = 1
    /\ run' = 2
    /\ original' = disk
    /\ header' = disk.header
    /\ kept_rows' = <<>>
    /\ removed_count' = 0
    /\ total_count' = 0
    /\ min_ts' = None
    /\ max_ts' = None
    /\ pos' = 0
    /\ wpos' = 0
    /\ pc' = "read"
    /\ UNCHANGED <<disk, valid_users, notFilter>>

NextFilter ==
    \/ filter_ValidOpen
    \/ filter_ValidRow
    \/ filter_OpenInput
    \/ filter_ReadRow
    \/ filter_OpenForWrite
    \/ filter_WriteHeader
    \/ filter_WriteRow
    \/ filter_PrintStats
    \/ filter_Interrupted
    \/ filter_RunAgain

SpecFilter == InitFilter /\ [][NextFilter]_vars

(***************************************************************************)
(* analyze_comprehensive_discrepancies                                     *)
(***************************************************************************)
\* What print() puts out when an input file is missing.
ErrorLines == {"Error: File not found.", "Ingame file not found"}

InitComp ==
    /\ pc = "comp_open_summary"
    /\ summary_seen = {}
    /\ row = NoRow
    /\ IdleClassify
    /\ IdleDay8
    /\ IdleLogs
    /\ IdleFilter
    /\ IdlePasses

\* open(summary_file) succeeds, or raises FileNotFoundError: the error is
\* printed and the script exits.
comp_OpenSummary ==
    /\ pc = "comp_open_summary"
    /\ \/ pc' = "comp_summary" /\ UNCHANGED printed
       \/ pc' = "exit" /\ printed' = Append(printed, "Error: File not found.")
    /\ UNCHANGED <<row, users_summary_roles, compVars, notComp>>

\* One turn of "for row in reader" over the summary log.
comp_SummaryRow ==
    /\ pc = "comp_summary"
    /\ \E uid \in UserIds, role_raw \in RowLabels :
         users_summary_roles' =
            IF uid = "" \/ uid \in excluded_users THEN users_summary_roles
            ELSE IF get_role_category(role_raw) # "Other"
            THEN AddTo(users_summary_roles, uid, get_role_category(role_raw))
            ELSE users_summary_roles
    /\ UNCHANGED <<pc, row, printed, compVars, notComp>>

\* The summary log is exhausted: the loop over users_summary_roles.items()
\* sorts the users into the three groups, and the DEBUG lines are printed.
comp_Categories ==
    /\ pc = "comp_summary"
    /\ comp_athens_na_only' =
         {u \in DOMAIN users_summary_roles :
             /\ "Athens" \in users_summary_roles[u]
             /\ "North America" \in users_summary_roles[u]
             /\ "Mars Colony" \notin users_summary_roles[u]}
    /\ comp_athens_mars_only' =
         {u \in DOMAIN users_summary_roles :
             /\ "Athens" \in users_summary_roles[u]
             /\ ~("North America" \in users_summary_roles[u]
                    /\ "Mars Colony" \notin users_summary_roles[u])
             /\ "North America" \notin users_summary_roles[u]
             /\ "Mars Colony" \in users_summary_roles[u]}
    /\ no_athens' =
         {u \in DOMAIN users_summary_roles :
             /\ "Athens" \notin users_summary_roles[u]
             /\ ("North America" \in users_summary_roles[u]
                   \/ "Mars Colony" \in users_summary_roles[u])}
    /\ printed' = printed \o <<"DEBUG: Found users with Athens+NA",
                               "DEBUG: Found users with Athens+Mars",
                               "DEBUG: Found users with NO Athens">>
    /\ pc' = "comp_open_ingame"
    /\ UNCHANGED <<row, users_summary_roles, found_mars_for_athens_na,
                   found_na_for_athens_mars, found_roles_for_no_athens, notComp>>

comp_OpenIngame ==
    /\ pc = "comp_open_ingame"
    /\ \/ pc' = "comp_scan" /\ UNCHANGED printed
       \/ pc' = "exit" /\ printed' = Append(printed, "Error: File not found.")
    /\ UNCHANGED <<row, users_summary_roles, compVars, notComp>>

\* "for row in reader" over the in-game log yields the next row.
comp_NextRow ==
    /\ pc = "comp_scan"
    /\ \E uid \in UserIds, role_val \in RowLabels :
         row' = [userId |-> uid, role |-> role_val, day |-> <<>>]
    /\ pc' = "comp_body"
    /\ UNCHANGED <<printed, users_summary_roles, compVars, notComp>>

\* The if/elif chain that picks found_role for a row of a no-Athens user;
\* the result is the set of roles the row adds ({} for found_role = None).
comp_found_role(role_val) ==
    IF Contains(role_val, MarkerAthens) THEN {"Athens"}
    ELSE IF Contains(role_val, MarkerNA) THEN {"North America"}
    ELSE IF Contains(role_val, MarkerMars) THEN {"Mars Colony"}
    ELSE {}

\* d[uid].add(v) for every v of vs, after "if uid not in d: d[uid] = set()";
\* nothing happens when vs is empty.
AddAll(d, uid, vs) ==
    IF vs = {} THEN d
    ELSE IF uid \in DOMAIN d THEN [d EXCEPT ![uid] = @ \cup vs]
    ELSE d @@ (uid :> vs)

\* The body of the loop for one in-game row.
comp_ScanRow ==
    /\ pc = "comp_body"
    /\ LET uid == row.userId
           role_val == row.role
       IN  IF uid = ""
           THEN UNCHANGED <<found_mars_for_athens_na, found_na_for_athens_mars,
                            found_roles_for_no_athens>>
           ELSE /\ found_mars_for_athens_na' =
                     IF uid \in comp_athens_na_only /\ Contains(role_val, MarkerMars)
                     THEN AddAll(found_mars_for_athens_na, uid, {"Mars Colony"})
                     ELSE found_mars_for_athens_na
                /\ found_na_for_athens_mars' =
                     IF uid \in comp_athens_mars_only /\ Contains(role_val, MarkerNA)
                     THEN AddAll(found_na_for_athens_mars, uid, {"North America"})
                     ELSE found_na_for_athens_mars
                /\ found_roles_for_no_athens' =
                     IF uid \in no_athens
                     THEN AddAll(found_roles_for_no_athens, uid, comp_found_role(role_val))
                     ELSE found_roles_for_no_athens
    /\ row' = NoRow
    /\ pc' = "comp_scan"
    /\ UNCHANGED <<printed, users_summary_roles, comp_athens_na_only,
                   comp_athens_mars_only, no_athens, notComp>>

\* The in-game log is exhausted: the report is printed.
comp_PrintReport ==
    /\ pc = "comp_scan"
    /\ printed' = printed \o <<"## Comprehensive Discrepancy Analysis Results",
                               "### Users with 'Athens + North America' in Summary",
                               "### Users with 'Athens + Mars Colony' in Summary",
                               "### Users with NO 'Athens' in Summary">>
    /\ pc' = "done"
    /\ UNCHANGED <<row, users_summary_roles, compVars, notComp>>

NextComp ==
    \/ comp_OpenSummary
    \/ comp_SummaryRow
    \/ comp_Categories
    \/ comp_OpenIngame
    \/ comp_NextRow
    \/ comp_ScanRow
    \/ comp_PrintReport

SpecComp == InitComp /\ [][NextComp]_vars

(***************************************************************************)
(* verify_discrepancy.verify_all                                           *)
(***************************************************************************)
InitVerify ==
    /\ pc = "verify_open_ingame"
    /\ summary_seen = {}
    /\ row = NoRow
    /\ IdleClassify
    /\ IdleDay8
    /\ IdleLogs
    /\ IdleFilter
    /\ IdlePasses

\* open(ingame_file) succeeds, or raises FileNotFoundError: the error is
\* printed and the script exits.
verify_OpenIngame ==
    /\ pc = "verify_open_ingame"
    /\ \/ pc' = "verify_roles" /\ UNCHANGED printed
       \/ pc' = "exit" /\ printed' = Append(printed, "Ingame file not found")
    /\ UNCHANGED <<users_summary_roles, verifyVars, notVerify>>

\* One turn of the first loop over the in-game log: a non-empty label is
\* added to distinct_ingame_roles.
verify_RolesRow ==
    /\ pc = "verify_roles"
    /\ \E r \in RowLabels \cup {<<>>} :
         distinct_ingame_roles' =
            IF r # <<>> THEN distinct_ingame_roles \cup {r} ELSE distinct_ingame_roles
    /\ UNCHANGED <<pc, printed, users_summary_roles, athens_only,
                   users_with_extra_logs, notVerify>>

\* The first loop is over: the distinct labels are printed under their
\* headline, one line each, then the rule.
verify_PrintRoles ==
    /\ pc = "verify_roles"
    /\ printed' = printed \o <<"Distinct roles found in ingame logs:">>
                          \o [i \in 1..Cardinality(distinct_ingame_roles) |-> "  'role'"]
                          \o <<"----------------------------------------">>
    /\ pc' = "verify_open_summary"
    /\ UNCHANGED <<users_summary_roles, verifyVars, notVerify>>

\* open(summary_file) stands outside any try: it succeeds, or its
\* FileNotFoundError ends the script.
verify_OpenSummary ==
    /\ pc = "verify_open_summary"
    /\ pc' \in {"verify_summary", "raised"}
    /\ UNCHANGED <<printed, users_summary_roles, verifyVars, notVerify>>

\* One turn of "for row in reader" over the summary log.
verify_SummaryRow ==
    /\ pc = "verify_summary"
    /\ \E uid \in UserIds, r \in RowLabels :
         users_summary_roles' =
            IF uid = "" \/ uid \in excluded_users THEN users_summary_roles
            ELSE IF verify_all_role_type(r) # "Other"
            THEN AddTo(users_summary_roles, uid, verify_all_role_type(r))
            ELSE users_summary_roles
    /\ UNCHANGED <<pc, printed, verifyVars, notVerify>>

\* The summary log is exhausted: athens_only is built, sorted and printed.
verify_AthensOnly ==
    /\ pc = "verify_summary"
    /\ athens_only' =
         sorted({u \in DOMAIN users_summary_roles :
                    /\ "Athens" \in users_summary_roles[u]
                    /\ "North America" \notin users_summary_roles[u]
                    /\ "Mars Colony" \notin users_summary_roles[u]})
    /\ printed' = printed \o <<"Verified 'Athens Only' users">>
                          \o [i \in 1..Len(athens_only') |-> "  user"]
                          \o <<"----------------------------------------">>
    /\ pc' = "verify_reopen_ingame"
    /\ UNCHANGED <<users_summary_roles, distinct_ingame_roles,
                   users_with_extra_logs, notVerify>>

\* The second open(ingame_file) stands outside any try as well.
verify_ReopenIngame ==
    /\ pc = "verify_reopen_ingame"
    /\ pc' \in {"verify_scan", "raised"}
    /\ UNCHANGED <<printed, users_summary_roles, verifyVars, notVerify>>

\* found: two independent "if"s, one per extra role.
verify_found(r) ==
    (IF Contains(r, MarkerNA) THEN {"North America"} ELSE {})
      \cup (IF Contains(r, MarkerMars) THEN {"Mars Colony"} ELSE {})

InList(x, list) == \E i \in 1..Len(list) : list[i] = x

\* One turn of the second loop over the in-game log.
verify_ScanRow ==
    /\ pc = "verify_scan"
    /\ \E uid \in UserIds, r \in RowLabels :
         users_with_extra_logs' =
            IF InList(uid, athens_only)
            THEN AddAll(users_with_extra_logs, uid, verify_found(r))
            ELSE users_with_extra_logs
    /\ UNCHANGED <<pc, printed, users_summary_roles, distinct_ingame_roles,
                   athens_only, notVerify>>

\* The in-game log is exhausted: the results are printed.
verify_PrintResults ==
    /\ pc = "verify_scan"
    /\ printed' = printed \o <<"Discrepancy Results:">>
                          \o (IF users_with_extra_logs = EmptyMap
                              THEN <<"No users found with extra logs.">>
                              ELSE [i \in 1..Cardinality(DOMAIN users_with_extra_logs)
                                      |-> "User has extra logs"])
    /\ pc' = "done"
    /\ UNCHANGED <<users_summary_roles, verifyVars, notVerify>>

NextVerify ==
    \/ verify_OpenIngame
    \/ verify_RolesRow
    \/ verify_PrintRoles
    \/ verify_OpenSummary
    \/ verify_SummaryRow
    \/ verify_AthensOnly
    \/ verify_ReopenIngame
    \/ verify_ScanRow
    \/ verify_PrintResults

SpecVerify == InitVerify /\ [][NextVerify]_vars

(***************************************************************************)
(* analyze_max_day                                                         *)
(***************************************************************************)
\* targets: the three users and the role looked for.
max_day_targets ==
    [uid \in {"Mayajaqliner@mail.tau.ac.il", "gal2@mail.tau.ac.il",
              "noamronen2@mail.tau.ac.il"} |-> "Mars Colony"]

\* userId values of the in-game rows: the targets and one other user.
MaxDayUserIds == DOMAIN max_day_targets \cup {"u1"}

\* Texts of the day column: integers, one of them negative, and non-integers.
MaxDayTexts == { <<"8">>, <<"3">>, <<"-", "1">>, <<"x">>, <<>> }

\* if day_int > max_days[uid]: max_days[uid] = day_int
max_update(cur, day_int) == IF day_int > cur THEN day_int ELSE cur

InitMaxDay ==
    /\ pc = "max_open"
    /\ summary_seen = {}
    /\ row = NoRow
    /\ IdleClassify
    /\ IdleDay8
    /\ IdleLogs
    /\ IdleFilter
    /\ printed = <<>>
    /\ users_summary_roles = EmptyMap
    /\ IdleComp
    /\ IdleVerify
    /\ max_days = [uid \in DOMAIN max_day_targets |-> 0]
    /\ matched_days = [uid \in DOMAIN max_day_targets |-> {}]

\* open(ingame_file) succeeds, or raises FileNotFoundError: the error is
\* printed and the script exits.
max_Open ==
    /\ pc = "max_open"
    /\ \/ pc' = "max_scan" /\ UNCHANGED printed
       \/ pc' = "exit" /\ printed' = Append(printed, "Error: File not found.")
    /\ UNCHANGED <<row, maxVars, notMax>>

\* "for row in reader" yields the next row.
max_NextRow ==
    /\ pc = "max_scan"
    /\ \E uid \in MaxDayUserIds, role_val \in RowLabels, day_val \in MaxDayTexts :
         row' = [userId |-> uid, role |-> role_val, day |-> day_val]
    /\ pc' = "max_body"
    /\ UNCHANGED <<printed, maxVars, notMax>>

\* The body of the loop for one row.
max_ScanRow ==
    /\ pc = "max_body"
    /\ LET uid == row.userId
           day_int == int(row.day)
       IN  IF uid \in DOMAIN max_day_targets
              /\ Contains(row.role, Marker(max_day_targets[uid]))
              /\ day_int.ok
           THEN /\ max_days' = [max_days EXCEPT ![uid] = max_update(@, day_int.val)]
                /\ matched_days' = [matched_days EXCEPT ![uid] = @ \cup {day_int.val}]
           ELSE UNCHANGED <<max_days, matched_days>>
    /\ row' = NoRow
    /\ pc' = "max_scan"
    /\ UNCHANGED <<printed, notMax>>

\* The log is exhausted: one line per target with max_days[uid].
max_PrintReport ==
    /\ pc = "max_scan"
    /\ printed' = printed \o <<"## Max Day Analysis for Incomplete Users">>
                          \o [i \in 1..Cardinality(DOMAIN max_day_targets)
                                |-> "Max Day reached"]
    /\ pc' = "done"
    /\ UNCHANGED <<row, maxVars, notMax>>

NextMaxDay ==
    \/ max_Open
    \/ max_NextRow
    \/ max_ScanRow
    \/ max_PrintReport

SpecMaxDay == InitMaxDay /\ [][NextMaxDay]_vars

(***************************************************************************)
(* Claims about analyze_day8_completion                                    *)
(***************************************************************************)
Participants == summary_seen \ (excluded_users \cup {""})
SummaryRoles(uid) == IF uid \in DOMAIN targets THEN targets[uid] ELSE {}
ToCheck(uid) == IF uid \in DOMAIN users_to_check THEN users_to_check[uid] ELSE {}
is_verified_next(uid, r) ==
    uid \in DOMAIN results' /\ r \in DOMAIN results'[uid] /\ results'[uid][r]

\* The decision table's expected-missing column.
TableMissing(R) ==
    CASE R = {} -> {}
      [] R = Roles -> {}
      [] R = {"Athens"} -> {"North America", "Mars Colony"}
      [] R = {"Athens", "North America"} -> {"Mars Colony"}
      [] R = {"Athens", "Mars Colony"} -> {"North America"}
      [] "Athens" \notin R /\ R # {} -> {"Athens"} \cup ({"North America", "Mars Colony"} \ R)

\* C2: once the summary log is read, every non-excluded user of the summary
\* log is looked for in exactly the categories the decision table expects
\* for its role set (none when the user has no entry in users_to_check).
C2_ExpectedMissing ==
    pc \notin {"open_summary", "summary"} =>
        \A uid \in Participants : ToCheck(uid) = TableMissing(SummaryRoles(uid))

\* C2 witness: a user with only Mars Colony is looked for in Athens and
\* North America, beside a user of the summary log with no valid role.
C2_Witness ==
    /\ pc = "scan"
    /\ \E uid \in Participants :
         SummaryRoles(uid) = {"Mars Colony"} /\ ToCheck(uid) = {"Athens", "North America"}
    /\ \E uid \in Participants : SummaryRoles(uid) = {} /\ ToCheck(uid) = {}

\* C6: a day-8 row of a user whose label holds the marker of an expected
\* category C verifies (uid, C), whatever other marker the label holds.
C6_MembershipComplete ==
    [][ (pc = "body" /\ row.userId \in DOMAIN users_to_check) =>
          \A C \in users_to_check[row.userId] :
             (Contains(row.role, Marker(C)) /\ row.day = <<"8">>) =>
                 is_verified_next(row.userId, C) ]_vars

\* C7: a row that matches an expected category counts exactly when its day
\* text parses to the integer 8; any other row leaves results alone.
C7_DayParsed ==
    [][ (pc = "body" /\ row.userId \in DOMAIN users_to_check
           /\ day8_matched_target(row.role, users_to_check[row.userId]) # "None") =>
          LET m == day8_matched_target(row.role, users_to_check[row.userId])
              d == int(row.day)
          IN  /\ (d.ok /\ d.val = 8) => is_verified_next(row.userId, m)
              /\ ~(d.ok /\ d.val = 8) => results' = results ]_vars

\* C8: a (user, category) that is verified stays verified at every step.
C8_Monotonic ==
    [][ \A uid \in DOMAIN results : \A r \in DOMAIN results[uid] :
          results[uid][r] => is_verified_next(uid, r) ]_vars

\* C8 witness: a verified (user, category) meets a later row of that user
\* that matches the category on another day.
C8_Witness ==
    /\ pc = "body"
    /\ row.userId \in DOMAIN users_to_check
    /\ row.day # <<"8">>
    /\ LET m == day8_matched_target(row.role, users_to_check[row.userId])
       IN  m # "None" /\ is_verified(row.userId, m)

\* C9: every non-excluded user with a summary row is a key of the profile.
C9_OtherOnlyKept_day8 ==
    pc \notin {"open_summary", "summary"} =>
        \A uid \in Participants : uid \in DOMAIN targets


(***************************************************************************)
(* Claims about the classifiers, the profiles and the filter               *)
(***************************************************************************)
Counters == <<no_valid_roles, all_three, only_athens, athens_na_only,
              athens_mars_only, na_or_mars_no_athens>>

\* C1: every turn of the classification loop of analyze_users_debug
\* increments exactly one bucket counter, by one, and reports no user as
\* UNCLASSIFIED, whatever subset of the three roles the user has.
C1_ExactlyOneBucket ==
    [][ (pc = "debug_classify" /\ idx' = idx + 1) =>
          /\ Cardinality({i \in 1..6 : Counters'[i] = Counters[i] + 1}) = 1
          /\ Cardinality({i \in 1..6 : Counters'[i] = Counters[i]}) = 5
          /\ unclassified' = {} ]_vars

\* C1 witness: a user with Athens and Mars Colony only (the last branch of
\* the chain) and a user with no valid role have both been counted.
C1_Witness ==
    /\ pc = "done"
    /\ \E uid \in DOMAIN users_roles : users_roles[uid] = {"Athens", "Mars Colony"}
    /\ \E uid \in DOMAIN users_roles : users_roles[uid] = {}
    /\ athens_mars_only = 1
    /\ no_valid_roles = 1
    /\ unclassified = {}

\* C3: no excluded account is a key of a profile, is among the users the
\* buckets count, is a valid user, or is the userId of a kept or written row.
C3_ExcludedNowhere ==
    \A u \in excluded_users :
       /\ u \notin DOMAIN users_roles
       /\ u \notin DOMAIN targets
       /\ \A i \in 1..Len(unique_ids) : unique_ids[i] # u
       /\ u \notin valid_users
       /\ \A i \in 1..Len(kept_rows) : kept_rows[i].userId # u
       /\ pc \in {"write_rows", "stats", "killed"} =>
             \A i \in 1..Len(disk.rows) : disk.rows[i].userId # u

\* C4: when the statistics are printed, kept + removed = total = the rows of
\* the file, every kept row is a valid user's, and the removed rows are
\* exactly those of the others (the rows with an empty userId among them).
C4_FilterCounts ==
    pc = "stats" =>
       /\ Len(kept_rows) + removed_count = total_count
       /\ total_count = Len(original.rows)
       /\ \A i \in 1..Len(kept_rows) : kept_rows[i].userId \in valid_users
       /\ removed_count =
             Cardinality({i \in 1..Len(original.rows) :
                             original.rows[i].userId \notin valid_users})
       /\ \A i \in 1..Len(kept_rows) : kept_rows[i].userId # ""

\* C4 witness: a run that kept a row and removed a row with an empty userId.
C4_Witness ==
    /\ pc = "stats"
    /\ Len(kept_rows) >= 1
    /\ removed_count >= 1
    /\ \E i \in 1..Len(original.rows) : original.rows[i].userId = ""

IsValidRow(r) == r.userId \in valid_users
Retained == [original EXCEPT !.rows = SelectSeq(original.rows, IsValidRow)]

\* C5: the file on storage is always the complete original or the complete
\* retained subset under its header.
C5_AtomicReplace == disk = original \/ disk = Retained

\* C10: the classifier returns the first of Athens, North America, Mars
\* Colony whose marker the label contains, Other when it contains none, and
\* the inline copy of verify_all returns the same.
C10_Priority ==
    pc = "returned" =>
       /\ Contains(label, MarkerAthens) => role = "Athens"
       /\ (~Contains(label, MarkerAthens) /\ Contains(label, MarkerNA)) =>
             role = "North America"
       /\ (~Contains(label, MarkerAthens) /\ ~Contains(label, MarkerNA)
             /\ Contains(label, MarkerMars)) => role = "Mars Colony"
       /\ (\A r \in Roles : ~Contains(label, Marker(r))) => role = "Other"
       /\ role_type = role

\* C10 witness: a label with the markers of North America and Athens, in
\* that order, was classified Athens.
C10_Witness ==
    /\ pc = "returned"
    /\ label = <<"North", "America", "Athens">>
    /\ role = "Athens"
    /\ role_type = "Athens"


\* C11: the file a run has written holds the header of the input and exactly
\* the input rows of valid users, unchanged and in their original order.
C11_OrderPreserved ==
    pc = "stats" =>
       /\ disk.header = original.header
       /\ disk.rows = SelectSeq(original.rows, IsValidRow)
       /\ kept_rows = disk.rows

\* C11 witness: of three input rows the middle one was removed and the two
\* different rows around it were written.
C11_Witness ==
    /\ pc = "stats"
    /\ run = 1
    /\ Len(original.rows) = 3
    /\ original.rows[2].userId \notin valid_users
    /\ Len(disk.rows) = 2
    /\ disk.rows[1] # disk.rows[2]

\* C17: a second run on the file the first run wrote removes no row, keeps
\* every row, and leaves header and rows as the first run wrote them.
C17_Idempotent ==
    (run = 2 /\ pc = "stats") =>
       /\ removed_count = 0
       /\ Len(kept_rows) = total_count
       /\ total_count = Len(original.rows)
       /\ disk = original

\* C17 witness: the second run has rewritten a file of two different rows.
C17_Witness ==
    /\ run = 2
    /\ pc = "stats"
    /\ Len(disk.rows) >= 2
    /\ disk.rows[1] # disk.rows[2]


\* C15: results only has entries for non-excluded summary users with a
\* non-empty expected-missing set and only for categories of that set, none
\* of them in the user's summary role set; and an entry becomes true only on
\* a row of that user whose label contains the category's marker and whose
\* day field is 8.
C15_Sound ==
    [][ /\ \A u \in DOMAIN results' :
             /\ u \in summary_seen' \ (excluded_users \cup {""})
             /\ u \in DOMAIN users_to_check'
             /\ users_to_check'[u] # {}
             /\ \A c \in DOMAIN results'[u] :
                   /\ c \in users_to_check'[u]
                   /\ u \in DOMAIN targets' => c \notin targets'[u]
        /\ \A u \in DOMAIN results' : \A c \in DOMAIN results'[u] :
             (is_verified_next(u, c) /\ ~is_verified(u, c)) =>
                 /\ pc = "body"
                 /\ row.userId = u
                 /\ Contains(row.role, Marker(c))
                 /\ row.day = <<"8">>
                 /\ int(row.day) = [ok |-> TRUE, val |-> 8] ]_vars

\* C15 witness: the report is reached with Mars Colony verified for a user
\* whose summary roles include Athens.
C15_Witness ==
    /\ pc = "done"
    /\ \E u \in DOMAIN targets :
          "Athens" \in targets[u] /\ is_verified(u, "Mars Colony")

\* C16: in the report of analyze_users the four bucket counters add up to
\* Total Unique Users.
C16_CountsSumToTotal ==
    pc = "done" =>
       all_three + only_athens + athens_na_only + na_or_mars_no_athens
          = Len(unique_ids)


\* C14: a row of a no-Athens user puts into found_roles_for_no_athens every
\* category whose marker occurs in the row's label, whatever other markers
\* the label holds.
C14_AllRolesRecorded ==
    [][ (pc = "comp_body" /\ row.userId \in no_athens) =>
          \A C \in Roles :
             Contains(row.role, Marker(C)) =>
                /\ row.userId \in DOMAIN found_roles_for_no_athens'
                /\ C \in found_roles_for_no_athens'[row.userId] ]_vars


\* C13: when a pass has aborted on a missing log, nothing but the error
\* message has been printed: no report or result line of that run.
C13_NoPartialReport ==
    pc \in {"exit", "raised"} =>
       \A i \in 1..Len(printed) : printed[i] \in ErrorLines


\* C12: in the report of analyze_max_day, a target with at least one
\* matching row of integer day is reported with the largest of those days,
\* which is a day seen on one of its matching rows.
C12_MaxOfSeen ==
    pc = "done" =>
       \A uid \in DOMAIN max_days :
          matched_days[uid] # {} =>
             /\ max_days[uid] \in matched_days[uid]
             /\ \A d \in matched_days[uid] : d <= max_days[uid]

=============================================================================
